---- MODULE Spec2Model ----
(***************************************************************************)
(* A model of the ForgeAI browser assistant: the FileSystemService          *)
(* (src/services/fileSystemService.ts), the handlers of App (src/App.tsx)   *)
(* that drive it, and GeminiService.generateCode                            *)
(* (src/services/geminiService.ts).                                         *)
(*                                                                         *)
(* JavaScript runs one synchronous block at a time; a block ends at an      *)
(* await.  Every action below is one such block: a click handler up to its  *)
(* first await, or the continuation that runs when an awaited promise       *)
(* settles.  What the outside world answers (the HTTP bridge, the directory *)
(* picker, the directory handle, the generative API) is chosen with \E.     *)
(***************************************************************************)
EXTENDS Naturals, Sequences, FiniteSets

\* ------------------------------------------------------------------ bounds
\* Longest list of changes one assistant message proposes.
MaxChanges == 2
\* User clicks (mount, refresh, file, commit) in one run.
MaxClicks == 2
\* Longest response text, in tokens, the generative API returns.
MaxTextLen == 5
\* generateCode calls in one run.
MaxCalls == 2

\* --------------------------------------------------------------- constants
\* addLog keeps the last 50 entries.
LogCap == 50

\* ------------------------------------------------------------------ values
Paths == {"a.py", "b.py"}
Contents == {"x", "y"}
ChangeActions == {"create", "update", "delete"}
Modes == {"none", "server", "browser"}

\* A workspace file that does not exist, and one that exists with no content.
Absent == "<absent>"
Empty == ""
\* rootHandle: null, or the directory the picker returned.
NoHandle == "null"
DirHandle == "dir"

\* types.ts: FileChange and the lists of them a message carries (the commit
\* button is rendered only for a non-empty list).
FileChange == [path : Paths, content : Contents, action : ChangeActions]
ChangeLists == UNION {[1..n -> FileChange] : n \in 1..MaxChanges}

\* The branch a service call takes, and the backend that branch contacts.
Branches == {"http", "handle", "filehandle", "none"}
NoCall == [op |-> "none", at |-> "none", branch |-> "none", touched |-> {}]

VARIABLES
  \* FileSystemService
  mode, rootHandle,
  \* the two workspaces: the bridge's directory and the picked directory
  serverFiles, browserFiles,
  \* App state (useState)
  connectionMode, mountedName, fileTree, activeFile, logs,
  isApplyingChanges, showSecurityWarning,
  \* handlers in flight
  initPc, mount, scans, read, apply,
  \* observations of the current commit; whether a mount succeeded and no
  \* scan started since has settled; the clicks so far
  obs, mountPending, clicks,
  \* GeminiService.generateCode
  gen

fsVars == <<mode, rootHandle, serverFiles, browserFiles>>
appVars == <<connectionMode, mountedName, fileTree, activeFile, logs,
             isApplyingChanges, showSecurityWarning>>
taskVars == <<initPc, mount, scans, read, apply, obs, mountPending, clicks>>
vars == <<fsVars, appVars, taskVars, gen>>

\* ----------------------------------------------------------------- helpers
\* App.addLog: append, keep the last LogCap entries (timestamps left out).
addLog(l, msg) ==
  LET a == Append(l, msg)
  IN IF Len(a) > LogCap THEN SubSeq(a, Len(a) - LogCap + 1, Len(a)) ELSE a

\* The backend a branch contacts.
Touch(branch) ==
  IF branch = "http" THEN {"http"}
  ELSE IF branch = "handle" THEN {"handle"}
  ELSE IF branch = "filehandle" THEN {"filehandle"}
  ELSE {}

\* FileSystemService.scanDirectory: the branch taken in mode m with root h.
scanDirectoryBranch(m, h) ==
  IF m = "server" THEN "http"
  ELSE IF m = "browser" /\ h # NoHandle THEN "handle"
  ELSE "none"

\* A writeFile that looks for a root handle before it looks at the mode.
writeFileBranchHandleFirst(m, h) ==
  IF h # NoHandle THEN "handle"
  ELSE IF m = "server" THEN "http"
  ELSE "none"

\* FileSystemService.writeFile: the branch taken in mode m with root h.
writeFileBranch(m, h) ==
  IF m = "server" THEN "http"
  ELSE IF m = "browser" /\ h # NoHandle THEN "handle"
  ELSE "none"

\* FileSystemService.readFile: the branch taken in mode m; the node's handle
\* is "filehandle" (a browser node), "object" ({} of a server node).
readFileBranch(m, handle) ==
  IF m = "server" THEN "http"
  ELSE IF handle # "undefined" THEN "filehandle"
  ELSE "none"

Call(op, m, branch) ==
  [op |-> op, at |-> m, branch |-> branch, touched |-> Touch(branch)]

\* The names a scan lists: the files the workspace holds.
Listing(files) == {p \in Paths : files[p] # Absent}

\* scanDirectory's result by branch: the bridge's /ls, the handle's entries
\* (sorted; the order is not modelled), or [].
ScanResult(branch) ==
  IF branch = "http" THEN [origin |-> "server", names |-> Listing(serverFiles)]
  ELSE IF branch = "handle"
    THEN [origin |-> "browser", names |-> Listing(browserFiles)]
  ELSE [origin |-> "none", names |-> {}]

\* The fire-and-forget scans in flight: a bag of tasks.
ScanTasks == [branch : Branches, at : Modes, fresh : BOOLEAN]
NoScans == [t \in ScanTasks |-> 0]
\* A mount makes every scan started before it stale.
Stale(bag) ==
  [t \in ScanTasks |->
     IF t.fresh THEN 0 ELSE bag[t] + bag[[t EXCEPT !.fresh = TRUE]]]
AddScan(bag, t) == [bag EXCEPT ![t] = @ + 1]
DelScan(bag, t) == [bag EXCEPT ![t] = @ - 1]

\* ----------------------------------------------------------- initial state
Greeting == "ForgeAI Initialized. Checking local bridge..."
NoFiles == [p \in Paths |-> Absent]
\* What each workspace holds before the first commit: one file.
InitFiles == [NoFiles EXCEPT !["a.py"] = "y"]

IdleApply == [pc |-> "idle", changes |-> <<>>, i |-> 0, call |-> NoCall]
IdleRead == [pc |-> "idle", path |-> "", call |-> NoCall]
IdleMount == [pc |-> "idle", captured |-> "none"]
IdleGen == [pc |-> "idle", calls |-> 0, requests |-> 0, text |-> <<>>,
            result |-> [kind |-> "none", keys |-> {}], error |-> ""]
NoObs == [issued |-> <<>>, finished |-> 0, lost |-> FALSE,
          resolvedMode |-> "none", scanFresh |-> FALSE,
          logged |-> "", failedAt |-> ""]

\* The state after App's first render and its effect: the service is fresh
\* and initConnection's fetch of /status is in flight.
InitApp ==
  /\ mode = "none" /\ rootHandle = NoHandle
  /\ serverFiles = InitFiles /\ browserFiles = InitFiles
  /\ connectionMode = "none" /\ mountedName = ""
  /\ fileTree = [origin |-> "none", names |-> {}]
  /\ activeFile = [path |-> "", content |-> ""]
  /\ logs = <<Greeting>>
  /\ isApplyingChanges = FALSE /\ showSecurityWarning = FALSE
  /\ initPc = "status" /\ mount = IdleMount /\ scans = NoScans
  /\ read = IdleRead /\ apply = IdleApply
  /\ obs = NoObs /\ mountPending = FALSE /\ clicks = 0

Init == InitApp /\ gen = IdleGen

\* ------------------------------------------------- mount and refreshFileTree
\* refreshFileTree scans only when the connectionMode its closure captured
\* is not 'none' (useCallback over [connectionMode, addLog]).
refreshFileTreeScans(captured) == captured # "none"

\* The continuation of a successful mount: initConnection after
\* checkConnection() found the bridge, handleMount after requestDirectory()
\* resolved.  m and h are the service's mode and root at that point; captured
\* is the connectionMode of the render that created the handler.
Mounted(m, h, name, captured, entry) ==
  /\ connectionMode' = m
  /\ mountedName' = name
  /\ logs' = addLog(logs, entry)
  /\ scans' = IF refreshFileTreeScans(captured)
                THEN AddScan(Stale(scans),
                             [branch |-> scanDirectoryBranch(m, h), at |-> m,
                              fresh |-> TRUE])
                ELSE Stale(scans)
  /\ obs' = [obs EXCEPT !.scanFresh = FALSE]
  /\ mountPending' = TRUE

\* initConnection: /status answered ok; checkConnection sets mode 'server'.
InitConnected ==
  /\ initPc = "status"
  /\ initPc' = "done"
  /\ mode' = "server"
  /\ Mounted("server", rootHandle, "Local Machine", "none",
             "Connected to Python Local Bridge.")
  /\ UNCHANGED <<rootHandle, serverFiles, browserFiles, fileTree, activeFile,
                 isApplyingChanges, showSecurityWarning, mount, read, apply,
                 clicks, gen>>

\* initConnection: /status failed (not ok, or fetch threw); nothing happens.
InitNoBridge ==
  /\ initPc = "status"
  /\ initPc' = "done"
  /\ UNCHANGED <<fsVars, appVars, mount, scans, read, apply, obs,
                 mountPending, clicks, gen>>

\* handleMount clicked: requestDirectory calls checkConnection, which fetches
\* /status.  One handleMount is in flight at a time.
MountClick ==
  /\ mount.pc = "idle" /\ clicks < MaxClicks
  /\ clicks' = clicks + 1
  /\ mount' = [pc |-> "status", captured |-> connectionMode]
  /\ UNCHANGED <<fsVars, appVars, initPc, scans, read, apply, obs,
                 mountPending, gen>>

\* /status answered ok: mode 'server', requestDirectory resolves.
MountServer ==
  /\ mount.pc = "status"
  /\ mode' = "server"
  /\ Mounted("server", rootHandle, "Local Machine", mount.captured,
             "Mounted: Local Machine via server")
  /\ showSecurityWarning' = FALSE
  /\ mount' = IdleMount
  /\ UNCHANGED <<rootHandle, serverFiles, browserFiles, fileTree, activeFile,
                 isApplyingChanges, initPc, read, apply, clicks, gen>>

\* /status failed: requestDirectory opens the directory picker.
MountNoBridge ==
  /\ mount.pc = "status"
  /\ mount' = [mount EXCEPT !.pc = "picker"]
  /\ UNCHANGED <<fsVars, appVars, initPc, scans, read, apply, obs,
                 mountPending, clicks, gen>>

\* The picker returned a directory: rootHandle and mode 'browser'.
MountBrowser ==
  /\ mount.pc = "picker"
  /\ rootHandle' = DirHandle
  /\ mode' = "browser"
  /\ Mounted("browser", DirHandle, DirHandle, mount.captured,
             "Mounted: dir via browser")
  /\ showSecurityWarning' = FALSE
  /\ mount' = IdleMount
  /\ UNCHANGED <<serverFiles, browserFiles, fileTree, activeFile,
                 isApplyingChanges, initPc, read, apply, clicks, gen>>

\* The picker threw: SANDBOX_RESTRICTION shows the warning, anything else
\* (the user cancelled) is logged.
MountRefused ==
  /\ mount.pc = "picker"
  /\ \E sandbox \in BOOLEAN :
       /\ showSecurityWarning' = (sandbox \/ showSecurityWarning)
       /\ logs' = addLog(logs,
                    IF sandbox
                      THEN "SECURITY: Browser sandbox blocked File System Access."
                      ELSE "Error: picker")
  /\ mount' = IdleMount
  /\ UNCHANGED <<fsVars, connectionMode, mountedName, fileTree, activeFile,
                 isApplyingChanges, initPc, scans, read, apply, obs,
                 mountPending, clicks, gen>>

\* The Refresh button: refreshFileTree of the current render.
RefreshClick ==
  /\ clicks < MaxClicks
  /\ refreshFileTreeScans(connectionMode)
  /\ clicks' = clicks + 1
  /\ scans' = AddScan(scans, [branch |-> scanDirectoryBranch(mode, rootHandle),
                              at |-> mode, fresh |-> TRUE])
  /\ UNCHANGED <<fsVars, appVars, initPc, mount, read, apply, obs,
                 mountPending, gen>>

\* A fire-and-forget scan resolved: setFileTree, addLog.
ScanDone ==
  \E t \in ScanTasks :
    /\ scans[t] > 0
    /\ scans' = DelScan(scans, t)
    /\ fileTree' = ScanResult(t.branch)
    /\ logs' = addLog(logs, "File tree refreshed.")
    /\ mountPending' = (mountPending /\ ~t.fresh)
    /\ UNCHANGED <<fsVars, connectionMode, mountedName, activeFile,
                   isApplyingChanges, showSecurityWarning, initPc, mount,
                   read, apply, obs, clicks, gen>>

\* A fire-and-forget scan threw (fetch, resp.json() or the handle's
\* iteration): an unhandled rejection, no state is set.
ScanThrow ==
  \E t \in ScanTasks :
    /\ scans[t] > 0 /\ t.branch # "none"
    /\ scans' = DelScan(scans, t)
    /\ mountPending' = (mountPending /\ ~t.fresh)
    /\ UNCHANGED <<fsVars, appVars, initPc, mount, read, apply, obs,
                   clicks, gen>>

\* ------------------------------------------------------- handleFileClick
\* A file of the tree clicked: readFile(node.path || node.name, node.handle).
\* A node a server scan built carries handle {} ("object"), one a browser
\* scan built carries its file handle.  Outside server mode readFile calls
\* handle.getFile(), which {} does not have: the call throws at once and
\* nothing is set.  One read is in flight at a time.
FileClick ==
  \E p \in fileTree.names :
    LET handle == IF fileTree.origin = "browser" THEN "filehandle" ELSE "object"
        branch == readFileBranch(mode, handle)
    IN /\ read.pc = "idle" /\ clicks < MaxClicks
       /\ clicks' = clicks + 1
       /\ read' = IF branch = "http"
                    THEN [pc |-> "fetch", path |-> p,
                          call |-> Call("readFile", mode, branch)]
                  ELSE IF branch = "filehandle" /\ handle = "filehandle"
                    THEN [pc |-> "getFile", path |-> p,
                          call |-> Call("readFile", mode, branch)]
                  ELSE IdleRead
       /\ UNCHANGED <<fsVars, appVars, initPc, mount, scans, apply, obs,
                      mountPending, gen>>

\* readFile resolved: setActiveFile, addLog.  The bridge has no content for
\* a file it does not hold (data.content is undefined).
ReadDone ==
  /\ read.pc \in {"fetch", "getFile"}
  /\ LET files == IF read.pc = "fetch" THEN serverFiles ELSE browserFiles
         content == IF files[read.path] = Absent THEN "undefined"
                    ELSE files[read.path]
     IN activeFile' = [path |-> read.path, content |-> content]
  /\ logs' = addLog(logs, "Opened")
  /\ read' = IdleRead
  /\ UNCHANGED <<fsVars, connectionMode, mountedName, fileTree,
                 isApplyingChanges, showSecurityWarning, initPc, mount, scans,
                 apply, obs, mountPending, clicks, gen>>

\* readFile threw: an unhandled rejection.
ReadThrow ==
  /\ read.pc \in {"fetch", "getFile"}
  /\ read' = IdleRead
  /\ UNCHANGED <<fsVars, appVars, initPc, mount, scans, apply, obs,
                 mountPending, clicks, gen>>

\* ----------------------------------------------------------- applyChanges
\* An applyChanges without its test of the action.
ShouldWriteAny(change) == change.action \in ChangeActions

\* FileSystemService.applyChanges writes a change unless it is a 'delete'.
ShouldWrite(change) == change.action # "delete"

\* The loop of applyChanges: the first change at or after index i that is
\* written, or Len + 1 when the loop runs out.
RECURSIVE NextWrite(_, _)
NextWrite(changes, i) ==
  IF i > Len(changes) THEN Len(changes) + 1
  ELSE IF ShouldWrite(changes[i]) THEN i
  ELSE NextWrite(changes, i + 1)

\* The indices at or after i that the loop passes to writeFile.
RECURSIVE WritesFrom(_, _)
WritesFrom(changes, i) ==
  IF i > Len(changes) THEN <<>>
  ELSE IF ShouldWrite(changes[i]) THEN <<i>> \o WritesFrom(changes, i + 1)
  ELSE WritesFrom(changes, i + 1)

SuccessEntry == "Changes successfully written to disk."
ErrorEntry == "Write Error"

\* The loop from index `from` up to its next await, in one block.  Either a
\* writeFile reaches its backend (a fetch, or getFileHandle on the root), or
\* the loop runs out: then applyChanges resolves and App goes on to
\* `await refreshFileTree()`, whose closure saw a connectionMode other than
\* 'none' (the button is disabled otherwise).  In a mode with no backend
\* writeFile returns at once, so the loop passes every remaining change to it
\* and runs out.
ApplyRun(changes, from, o) ==
  LET j == NextWrite(changes, from)
      b == writeFileBranch(mode, rootHandle)
  IN IF j <= Len(changes) /\ b # "none"
       THEN /\ apply' = [pc |-> IF b = "http" THEN "fetch" ELSE "getFileHandle",
                         changes |-> changes, i |-> j,
                         call |-> Call("writeFile", mode, b)]
            /\ obs' = [o EXCEPT !.issued = Append(@, j)]
       ELSE /\ apply' = [pc |-> "scan", changes |-> changes,
                         i |-> Len(changes) + 1,
                         call |-> Call("scanDirectory", mode,
                                       scanDirectoryBranch(mode, rootHandle))]
            /\ obs' = [o EXCEPT !.issued = @ \o WritesFrom(changes, j),
                                !.finished = @ + Len(WritesFrom(changes, j)),
                                !.lost = @ \/ j <= Len(changes),
                                !.resolvedMode = mode,
                                !.scanFresh = TRUE]

\* The commit button of a message: disabled while a commit runs and while
\* nothing is mounted.
ApplyClick ==
  \E changes \in ChangeLists :
    /\ ~isApplyingChanges /\ connectionMode # "none"
    /\ clicks < MaxClicks
    /\ clicks' = clicks + 1
    /\ isApplyingChanges' = TRUE
    /\ logs' = addLog(logs, "Applying changes...")
    /\ ApplyRun(changes, 1, NoObs)
    /\ UNCHANGED <<fsVars, connectionMode, mountedName, fileTree, activeFile,
                   showSecurityWarning, initPc, mount, scans, read,
                   mountPending, gen>>

\* The write reached by the loop.
CurrentChange == apply.changes[apply.i]

\* Server mode: the bridge stored the file; writeFile resolves and the loop
\* goes on.
WriteStored ==
  /\ apply.pc = "fetch"
  /\ serverFiles' = [serverFiles EXCEPT ![CurrentChange.path] =
                                             CurrentChange.content]
  /\ ApplyRun(apply.changes, apply.i + 1, [obs EXCEPT !.finished = @ + 1])
  /\ UNCHANGED <<mode, rootHandle, browserFiles, appVars, initPc, mount,
                 scans, read, mountPending, clicks, gen>>

\* Server mode: the bridge answered with a failure status.  fetch resolves,
\* writeFile does not look at the response, and the loop goes on.
WriteRefused ==
  /\ apply.pc = "fetch"
  /\ ApplyRun(apply.changes, apply.i + 1,
              [obs EXCEPT !.finished = @ + 1, !.lost = TRUE])
  /\ UNCHANGED <<fsVars, appVars, initPc, mount, scans, read, mountPending,
                 clicks, gen>>

\* Browser mode: getFileHandle(name, {create: true}) creates the file, empty,
\* when the directory does not hold it.
WriteGetFileHandle ==
  /\ apply.pc = "getFileHandle"
  /\ browserFiles' = [browserFiles EXCEPT ![CurrentChange.path] =
                                               IF @ = Absent THEN Empty ELSE @]
  /\ apply' = [apply EXCEPT !.pc = "createWritable",
                            !.call.touched = @ \cup {"handle"}]
  /\ UNCHANGED <<mode, rootHandle, serverFiles, appVars, initPc, mount, scans,
                 read, obs, mountPending, clicks, gen>>

\* Browser mode: createWritable() and write(content); the content is staged
\* and reaches the file at close().
WriteStaged ==
  /\ apply.pc = "createWritable"
  /\ apply' = [apply EXCEPT !.pc = "close",
                            !.call.touched = @ \cup {"handle"}]
  /\ UNCHANGED <<fsVars, appVars, initPc, mount, scans, read, obs,
                 mountPending, clicks, gen>>

\* Browser mode: close() stores the content; writeFile resolves and the loop
\* goes on.
WriteClosed ==
  /\ apply.pc = "close"
  /\ browserFiles' = [browserFiles EXCEPT ![CurrentChange.path] =
                                               CurrentChange.content]
  /\ ApplyRun(apply.changes, apply.i + 1, [obs EXCEPT !.finished = @ + 1])
  /\ UNCHANGED <<mode, rootHandle, serverFiles, appVars, initPc, mount, scans,
                 read, mountPending, clicks, gen>>

\* What a throwing write leaves of the commit: applyChanges rejects, App's
\* catch logs the error and its finally re-enables the button.
Rejected(ap) == [ap EXCEPT !.pc = "rejected"]

\* An applyChanges that catches a throwing write inside its loop and goes on
\* with the next change.
WriteThrowSwallowed ==
  /\ apply.pc \in {"fetch", "getFileHandle", "createWritable", "close"}
  /\ ApplyRun(apply.changes, apply.i + 1,
              [obs EXCEPT !.finished = @ + 1, !.failedAt = "write"])
  /\ UNCHANGED <<fsVars, appVars, initPc, mount, scans, read, mountPending,
                 clicks, gen>>

\* A write threw (fetch could not reach the bridge, or the handle refused).
WriteThrow ==
  /\ apply.pc \in {"fetch", "getFileHandle", "createWritable", "close"}
  /\ apply' = Rejected(apply)
  /\ obs' = [obs EXCEPT !.finished = @ + 1, !.failedAt = "write",
                        !.logged = ErrorEntry]
  /\ logs' = addLog(logs, ErrorEntry)
  /\ isApplyingChanges' = FALSE
  /\ UNCHANGED <<fsVars, connectionMode, mountedName, fileTree, activeFile,
                 showSecurityWarning, initPc, mount, scans, read,
                 mountPending, clicks, gen>>

\* The awaited refreshFileTree resolved: setFileTree, its log entry, then the
\* success entry.
ApplyRefreshed ==
  /\ apply.pc = "scan"
  /\ fileTree' = ScanResult(apply.call.branch)
  /\ logs' = addLog(addLog(logs, "File tree refreshed."), SuccessEntry)
  /\ isApplyingChanges' = FALSE
  /\ apply' = [apply EXCEPT !.pc = "resolved"]
  /\ obs' = [obs EXCEPT !.logged = SuccessEntry]
  /\ mountPending' = (mountPending /\ ~obs.scanFresh)
  /\ UNCHANGED <<fsVars, connectionMode, mountedName, activeFile,
                 showSecurityWarning, initPc, mount, scans, read, clicks, gen>>

\* The awaited refreshFileTree threw: the same catch logs a write error.
ApplyRefreshThrow ==
  /\ apply.pc = "scan" /\ apply.call.branch # "none"
  /\ logs' = addLog(logs, ErrorEntry)
  /\ isApplyingChanges' = FALSE
  /\ apply' = Rejected(apply)
  /\ obs' = [obs EXCEPT !.failedAt = "scan", !.logged = ErrorEntry]
  /\ mountPending' = (mountPending /\ ~obs.scanFresh)
  /\ UNCHANGED <<fsVars, connectionMode, mountedName, fileTree, activeFile,
                 showSecurityWarning, initPc, mount, scans, read, clicks, gen>>

\* ------------------------------------------------------------ specification
NextApp ==
  \/ InitConnected \/ InitNoBridge
  \/ MountClick \/ MountServer \/ MountNoBridge \/ MountBrowser \/ MountRefused
  \/ RefreshClick \/ ScanDone \/ ScanThrow
  \/ FileClick \/ ReadDone \/ ReadThrow
  \/ ApplyClick \/ WriteStored \/ WriteRefused
  \/ WriteGetFileHandle \/ WriteStaged \/ WriteClosed \/ WriteThrow
  \/ ApplyRefreshed \/ ApplyRefreshThrow

Spec == Init /\ [][NextApp]_vars

\* ------------------------------------------------------------ generateCode
\* A response text is a sequence of tokens: braces, null, and one token per
\* member of the response schema (the member with its value).  Undefined
\* stands for a response without text; it is no text.
SchemaKeys == {"thinking", "message", "changes"}
JsonTokens == {"{", "}", "null"} \cup SchemaKeys
Undefined == <<"undefined">>
ResponseTexts ==
  {Undefined} \cup UNION {[1..n -> JsonTokens] : n \in 0..MaxTextLen}

\* JSON.parse on such a text: null, or an object of members between braces;
\* anything else is a SyntaxError.
JSONparse(text) ==
  IF text = <<"null">> THEN [ok |-> TRUE, kind |-> "null", keys |-> {}]
  ELSE IF /\ Len(text) >= 2
          /\ text[1] = "{" /\ text[Len(text)] = "}"
          /\ \A k \in 2..(Len(text) - 1) : text[k] \in SchemaKeys
    THEN [ok |-> TRUE, kind |-> "object",
          keys |-> {text[k] : k \in 2..(Len(text) - 1)}]
  ELSE [ok |-> FALSE, kind |-> "none", keys |-> {}]

\* `response.text || '{}'`: undefined and the empty string are falsy.
TextOrEmptyObject(text) ==
  IF text = Undefined \/ text = <<>> THEN <<"{", "}">> ELSE text

InvalidStructure == "The AI returned an invalid response structure."

\* generateCode called: the client is built and generateContent is requested.
GenerateCall ==
  /\ gen.pc # "awaiting" /\ gen.calls < MaxCalls
  /\ gen' = [IdleGen EXCEPT !.pc = "awaiting", !.calls = gen.calls + 1,
                            !.requests = gen.requests + 1]
  /\ UNCHANGED <<fsVars, appVars, taskVars>>

\* generateContent resolved: the text is parsed and returned as it is, or
\* the SyntaxError is replaced by the fixed error.
GenerateResponse ==
  \E text \in ResponseTexts :
    LET parsed == JSONparse(TextOrEmptyObject(text))
    IN /\ gen.pc = "awaiting"
       /\ gen' = IF parsed.ok
                   THEN [gen EXCEPT !.pc = "resolved", !.text = text,
                           !.result = [kind |-> parsed.kind,
                                       keys |-> parsed.keys]]
                   ELSE [gen EXCEPT !.pc = "rejected", !.text = text,
                           !.error = InvalidStructure]
       /\ UNCHANGED <<fsVars, appVars, taskVars>>

\* generateContent rejected (it is awaited outside the try): generateCode
\* rejects with the API's error.
GenerateApiError ==
  /\ gen.pc = "awaiting"
  /\ gen' = [gen EXCEPT !.pc = "rejected", !.text = Undefined,
                        !.error = "api"]
  /\ UNCHANGED <<fsVars, appVars, taskVars>>

NextGen == GenerateCall \/ GenerateResponse \/ GenerateApiError

SpecGen == Init /\ [][NextGen]_vars

\* ------------------------------------------------------------------ claims
Range(f) == {f[k] : k \in DOMAIN f}
WritePcs == {"fetch", "getFileHandle", "createWritable", "close"}
\* The workspace a mode writes to.
Workspace(m) == IF m = "server" THEN serverFiles ELSE browserFiles
\* The indices of the 'create' and 'update' changes of path p.
Edits(changes, p) ==
  {k \in DOMAIN changes :
     changes[k].path = p /\ changes[k].action \in {"create", "update"}}
Max(S) == CHOOSE k \in S : \A j \in S : j <= k
\* Every path a 'create' or 'update' names holds, in the workspace of mode m,
\* the content of the last such change.
EditsStored(changes, m) ==
  \A p \in Paths :
    Edits(changes, p) # {} =>
      Workspace(m)[p] = changes[Max(Edits(changes, p))].content
OnlyDeletes(changes) ==
  changes # <<>> /\ \A k \in DOMAIN changes : changes[k].action = "delete"

\* The service calls in flight, and the last call of the commit.
CallsInFlight ==
  {apply.call, read.call}
    \cup {Call("scanDirectory", t.at, t.branch) : t \in {u \in ScanTasks : scans[u] > 0}}

\* C1: every service call dispatches on the mode it finds when it is made: a
\* scanDirectory, readFile or writeFile made in mode 'server' contacts the
\* HTTP bridge and nothing else; a scanDirectory or writeFile made in mode
\* 'browser' contacts the root directory handle and nothing else; no call
\* contacts two backends.
C1_DispatchOnMode ==
  \A c \in CallsInFlight :
    /\ c.op \in {"scanDirectory", "readFile", "writeFile"} /\ c.at = "server"
         => c.touched = {"http"}
    /\ c.op \in {"scanDirectory", "writeFile"} /\ c.at = "browser"
         => c.touched = {"handle"}
    /\ Cardinality(c.touched) <= 1

\* C1's case: a write dispatched in mode 'browser' is at its close() on the
\* handle while the service has meanwhile switched to mode 'server'.
C1_Witness ==
  /\ apply.pc = "close" /\ apply.call.op = "writeFile"
  /\ apply.call.at = "browser" /\ apply.call.touched = {"handle"}
  /\ mode = "server"

\* C2: when applyChanges has resolved in mode 'server' or 'browser', every
\* path named by a 'create' or 'update' change holds, in the workspace, the
\* content of the last such change of the list.
C2_EditsInWorkspace ==
  apply.pc = "scan" /\ obs.resolvedMode \in {"server", "browser"}
    => EditsStored(apply.changes, obs.resolvedMode)

\* C3: generateCode issues one generateContent request per call; it resolves
\* only with an object that has thinking, message and changes; a response
\* text that is not valid JSON makes it reject with the fixed error.
C3_SchemaOutcome ==
  /\ gen.requests = gen.calls
  /\ gen.pc = "resolved"
       => gen.result.kind = "object" /\ SchemaKeys \subseteq gen.result.keys
  /\ gen.pc \in {"resolved", "rejected"} /\ gen.error # "api"
       /\ ~JSONparse(TextOrEmptyObject(gen.text)).ok
       => gen.pc = "rejected" /\ gen.error = InvalidStructure

\* No handler is in flight: nothing happens until the user clicks again.
Quiescent ==
  /\ initPc = "done" /\ mount.pc = "idle" /\ read.pc = "idle"
  /\ scans = NoScans /\ apply.pc \notin WritePcs \cup {"scan"}

\* C4: after a mount succeeds the file tree is eventually replaced by a scan
\* of the mounted workspace.  Stated for a finite run: while a mount has
\* succeeded and no scan started since has settled, some handler is still in
\* flight (at rest, the scan the claim promises can no longer come).
C4_MountRefreshesTree == mountPending => ~Quiescent

\* C5: the success entry is logged only when every change that is not a
\* 'delete' is stored in the workspace, and a commit one of whose writes took
\* no effect ends with the 'Write Error' entry.
C5_SuccessMeansStored ==
  /\ obs.logged = SuccessEntry
       => /\ EditsStored(apply.changes, obs.resolvedMode)
          /\ SuccessEntry \in Range(logs)
  /\ apply.pc \in {"resolved", "rejected"} /\ obs.lost
       => obs.logged = ErrorEntry

\* C6, in every state: the writes of a commit are issued in list order
\* without skipping a change that is to be written, a write is issued only
\* when every earlier one has finished, and a write that threw leaves the
\* commit rejected at that write.
C6_Ordered ==
  LET issued == obs.issued
  IN /\ \A k \in 1..(Len(issued) - 1) : issued[k] < issued[k + 1]
     /\ \A k \in DOMAIN issued :
          /\ issued[k] \in DOMAIN apply.changes
          /\ apply.changes[issued[k]].action # "delete"
          /\ \A j \in 1..(issued[k] - 1) :
               apply.changes[j].action # "delete" => j \in Range(issued)
     /\ obs.finished = Len(issued) - (IF apply.pc \in WritePcs THEN 1 ELSE 0)
     /\ obs.failedAt = "write"
          => /\ apply.pc = "rejected" /\ obs.logged = ErrorEntry
             /\ issued # <<>> /\ issued[Len(issued)] = apply.i

\* C6, in every step: the step in which a write throws, and every step after
\* it while the commit stays rejected, issues no write and leaves every
\* workspace file as it is (no rollback, no later write).
C6_ThrowStep ==
  apply'.pc = "rejected"
    => /\ serverFiles' = serverFiles /\ browserFiles' = browserFiles
       /\ obs'.issued = obs.issued

\* C6: applyChanges writes in list order, one write at a time; a throwing
\* write rejects the commit, no later change is written and the earlier
\* writes stay.
C6_SequentialNoRollback == []C6_Ordered /\ [][C6_ThrowStep]_vars

\* C6's case: the second write of a commit threw after the first was stored.
C6_Witness ==
  /\ apply.pc = "rejected" /\ obs.failedAt = "write"
  /\ Len(obs.issued) = 2
  /\ serverFiles[apply.changes[obs.issued[1]].path]
       = apply.changes[obs.issued[1]].content
  /\ serverFiles # InitFiles

\* C7, in every state: no 'delete' change is passed to writeFile, and a
\* commit of 'delete' changes only makes no writeFile call.
C7_NoWriteForDelete ==
  /\ \A k \in Range(obs.issued) : apply.changes[k].action # "delete"
  /\ OnlyDeletes(apply.changes)
       => obs.issued = <<>> /\ apply.call.op # "writeFile"

\* C7, in every step: a commit of 'delete' changes only, from its click on,
\* leaves every workspace file as it is.
C7_DeleteStep ==
  OnlyDeletes(apply'.changes)
    => serverFiles' = serverFiles /\ browserFiles' = browserFiles

\* C7: applyChanges neither writes nor removes for a 'delete' change; a list
\* of 'delete' changes only leaves every file unchanged and contacts no
\* backend.
C7_DeleteIsNoOp == []C7_NoWriteForDelete /\ [][C7_DeleteStep]_vars

\* C7's case: a commit of 'delete' changes only has resolved, and a file it
\* names is still in the workspace.
C7_Witness ==
  /\ apply.pc = "resolved" /\ OnlyDeletes(apply.changes)
  /\ \E k \in DOMAIN apply.changes :
       Workspace(obs.resolvedMode)[apply.changes[k].path] # Absent

====
